---- MODULE Spec2Model ----
(***************************************************************************)
(* A model of analyze_cs_projects.py and nuget.py: the analysis of a       *)
(* folder of C# project files (ProjectsAnalyzer), the shared table of      *)
(* Reference objects, the project x reference usage matrix                 *)
(* (ReferencesMatrix) and the two tables of the report (HtmlFormatter).    *)
(*                                                                         *)
(* A Python str is a sequence of symbols.  The symbols "," and "=" are the *)
(* separators str.split is called with; every other symbol stands for a    *)
(* run of characters holding neither.  A Python value that may be None is  *)
(* a sequence of length 0 (None) or 1 (the value).                         *)
(***************************************************************************)
EXTENDS Naturals, Sequences, FiniteSets, TLC

VARIABLES
    files,            \* the project files found under the folder, in discovery order
    api_index,        \* NugetServiceIndex.api_index, the registry's root document
    pc,               \* where the run is: reading, report, done, aborted
    all_references,   \* ProjectsAnalyzer.all_references: dict, declared name -> Reference
    projects_info,    \* ProjectsAnalyzer.projects_info: list of ProjectInfo
    stdout,           \* package ids printed by NugetPackageMetadata.__init__, one per lookup
    uses,             \* ReferencesMatrix.uses: dict, Reference -> list of bool
    report,           \* the document written to the temporary file, None before
    opened            \* whether the report was handed to the web browser

vars == <<files, api_index, pc, all_references, projects_info, stdout, uses, report, opened>>

--------------------------------------------------------------------------
(* Bounds *)

MaxProjects == 2

--------------------------------------------------------------------------
(* Python values *)

None == <<>>

Some(x) == <<x>>

(* A dict is the sequence of its <<key, value>> items in insertion order. *)
DictKeys(d) == {d[i][1] : i \in 1..Len(d)}

DictHas(d, k) == \E i \in 1..Len(d) : d[i][1] = k

DictGet(d, k) == d[CHOOSE i \in 1..Len(d) : d[i][1] = k][2]

DictPut(d, k, v) ==
    IF DictHas(d, k)
    THEN [i \in 1..Len(d) |-> IF d[i][1] = k THEN <<k, v>> ELSE d[i]]
    ELSE Append(d, <<k, v>>)

RECURSIVE SplitFrom(_, _, _, _, _)
SplitFrom(s, sep, i, cur, acc) ==
    IF i > Len(s) THEN Append(acc, cur)
    ELSE IF s[i] = sep THEN SplitFrom(s, sep, i + 1, <<>>, Append(acc, cur))
    ELSE SplitFrom(s, sep, i + 1, Append(cur, s[i]), acc)

(* str.split(sep) *)
Split(s, sep) == SplitFrom(s, sep, 1, <<>>, <<>>)

(* sep.join(parts) *)
RECURSIVE Join(_, _)
Join(sep, parts) ==
    IF parts = <<>> THEN <<>>
    ELSE IF Len(parts) = 1 THEN parts[1]
    ELSE parts[1] \o <<sep>> \o Join(sep, Tail(parts))

(* The symbols bare names are spelled with, in the order of Python's str *)
(* comparison.                                                           *)
Alphabet == <<"Baz", "Foo", "Newtonsoft.Json">>

SymRank(c) == CHOOSE i \in 1..Len(Alphabet) : Alphabet[i] = c

(* a < b on str *)
RECURSIVE StrLess(_, _)
StrLess(a, b) ==
    IF b = <<>> THEN FALSE
    ELSE IF a = <<>> THEN TRUE
    ELSE IF a[1] = b[1] THEN StrLess(Tail(a), Tail(b))
    ELSE SymRank(a[1]) < SymRank(b[1])

--------------------------------------------------------------------------
(* The inputs: project files, manifests, the registry *)

Foo == <<"Foo">>

FooV1 == <<"Foo", ",", " Version", "=", "1.0.0.0">>

NewtonsoftVC == <<"Newtonsoft.Json", ",", " Version", "=", "12.0.0.0", ",", " Culture", "=", "neutral">>

NewtonsoftCV == <<"Newtonsoft.Json", ",", " Culture", "=", "neutral", ",", " Version", "=", "12.0.0.0">>

BazBad == <<"Baz", ",", " Culture">>

(* The Include attributes of a project file's Reference elements; None is *)
(* a Reference element without the attribute.                             *)
IncludeLists ==
    { <<>>,
      <<Some(Foo)>>,
      <<Some(FooV1)>>,
      <<Some(Foo), Some(NewtonsoftVC)>>,
      <<Some(NewtonsoftCV)>>,
      <<Some(FooV1), Some(BazBad)>>,
      <<Some(Foo), None>> }

NuGetPackage(id, version, target_framework) ==
    [Id |-> id, Version |-> version, TargetFramework |-> target_framework]

PkgFoo == NuGetPackage(<<"Foo">>, <<"1.0.0">>, <<"net45">>)

PkgNewtonsoft == NuGetPackage(<<"Newtonsoft.Json">>, <<"12.0.1">>, <<"net45">>)

(* packages.config beside the project file: absent, or present with its *)
(* package elements, or present and not well-formed XML.                *)
Manifests ==
    { [exists |-> FALSE, wellformed |-> TRUE, packages |-> <<>>],
      [exists |-> TRUE, wellformed |-> TRUE, packages |-> <<PkgFoo>>],
      [exists |-> TRUE, wellformed |-> TRUE, packages |-> <<PkgFoo, PkgNewtonsoft>>] }

NoManifest == [exists |-> FALSE, wellformed |-> TRUE, packages |-> <<>>]

MalformedManifest == [exists |-> TRUE, wellformed |-> FALSE, packages |-> <<>>]

(* The text of the TargetFrameworkVersion elements of a project file. *)
TwoVersions == <<Some(<<"v4.5">>), Some(<<"v4.0">>)>>

(* The project files of the model: every list of references with every   *)
(* manifest, some files without a TargetFrameworkVersion element, a file *)
(* that is not well-formed XML and a file beside a manifest that is not. *)
ProjectFiles ==
    [wellformed : {TRUE}, tfv : {TwoVersions}, includes : IncludeLists, manifest : Manifests]
    \cup [wellformed : {TRUE}, tfv : {<<>>},
          includes : {<<>>, <<Some(FooV1), Some(BazBad)>>}, manifest : {NoManifest}]
    \cup [wellformed : {FALSE}, tfv : {<<>>}, includes : {<<>>}, manifest : {NoManifest}]
    \cup [wellformed : {TRUE}, tfv : {<<>>}, includes : {<<Some(Foo)>>},
          manifest : {MalformedManifest}]

Folder == <<"C:", "\\", "src">>

Stems == <<"A", "B", "C", "D">>

(* The path os.walk gives the i-th project file. *)
PathOf(i) == Folder \o <<"\\", Stems[i], "\\", Stems[i], ".csproj">>

(* The registry's root document, with and without a RegistrationsBaseUrl. *)
ApiIndexes ==
    { [resources |-> << [type |-> "SearchQueryService", id |-> "https://search/"],
                        [type |-> "RegistrationsBaseUrl", id |-> "https://reg/"] >>],
      [resources |-> << [type |-> "SearchQueryService", id |-> "https://search/"] >>] }

(* What the per-package request gives: no JSON document (a network error, *)
(* an error page), a document without 'items', or the registration pages. *)
Responses ==
    { [json |-> FALSE, hasItems |-> FALSE, items |-> <<>>],
      [json |-> TRUE, hasItems |-> FALSE, items |-> <<>>],
      [json |-> TRUE, hasItems |-> TRUE,
       items |-> << [upper |-> <<"1.0.0">>], [upper |-> <<"2.0.0">>] >>] }

--------------------------------------------------------------------------
(* nuget.py *)

(* NugetServiceIndex.get_service_id; None: next() raises StopIteration *)
get_service_id(index, service_name) ==
    LET matching == SelectSeq(index.resources, LAMBDA x : x.type = service_name)
    IN  IF matching = <<>> THEN None ELSE Some(matching[1].id)

(* NugetPackageMetadata.__init__; None: the constructor raises *)
NugetPackageMetadata(service_index, package_id, response) ==
    IF get_service_id(service_index, "RegistrationsBaseUrl") = None THEN None
    ELSE IF ~response.json THEN None
    ELSE Some([registration_info |-> response])

(* NugetPackageMetadata.get_latest_version; None: KeyError 'items' *)
get_latest_version(metadata) ==
    IF ~metadata.registration_info.hasItems THEN None
    ELSE Some([i \in 1..Len(metadata.registration_info.items) |->
                   metadata.registration_info.items[i].upper])

--------------------------------------------------------------------------
(* analyze_cs_projects.py *)

(* ProjectInfo.__get_project_name: splitext(basename(file))[0] *)
get_project_name(file) ==
    LET parts == Split(file, "\\")
        base  == parts[Len(parts)]
    IN  IF Len(base) > 1 THEN SubSeq(base, 1, Len(base) - 1) ELSE base

ProjectInfo(file, target_framework_version, references, ng_packages) ==
    [Name |-> get_project_name(file),
     File |-> file,
     TargetFrameworkVersion |-> target_framework_version,
     References |-> references,
     ng_packages |-> ng_packages]

(* Reference.__init__ with the registry's answer to its request, should it *)
(* make one.  obj: the object, None when the constructor raises; out: what *)
(* NugetPackageMetadata.__init__ printed.                                  *)
Reference(nuget_service_index, reference_name, nuget_packages, response) ==
    IF reference_name = None THEN [obj |-> None, out |-> <<>>]
    ELSE
    LET FullName == reference_name[1]
        tokens   == Split(FullName, ",")
        Name     == tokens[1]
        qual     == IF Len(tokens) > 1 THEN Split(tokens[2], "=") ELSE <<>>
    IN
    IF Len(tokens) > 1 /\ Len(qual) < 2 THEN [obj |-> None, out |-> <<>>]
    ELSE
    LET Version == IF Len(tokens) > 1 THEN qual[2] ELSE <<>>
        made(is_nuget, latest) ==
            [FullName |-> FullName, Name |-> Name, Version |-> Version,
             IsNuGetPackage |-> is_nuget, LatestVersion |-> latest]
    IN
    IF nuget_packages = None THEN [obj |-> Some(made(FALSE, None)), out |-> <<>>]
    ELSE
    LET IsNuGetPackage ==
            \E i \in 1..Len(nuget_packages[1]) : nuget_packages[1][i].Id = Name
    IN
    IF ~IsNuGetPackage THEN [obj |-> Some(made(FALSE, None)), out |-> <<>>]
    ELSE
    LET metadata == NugetPackageMetadata(nuget_service_index, Name, response)
        latest   == IF metadata = None THEN None ELSE get_latest_version(metadata[1])
    IN
    IF latest = None THEN [obj |-> None, out |-> <<Name>>]
    ELSE [obj |-> Some(made(TRUE, Some(Join(", ", latest[1])))), out |-> <<Name>>]

(* ResolveOne with the table's record made anew by every project that *)
(* declares the name, from its own manifest                           *)
ResolveOneRefreshing(st, ref_name, ng_packages, index, response) ==
    IF st.raised THEN st
    ELSE
    LET r == Reference(index, ref_name, ng_packages, response)
    IN  IF r.obj = None
        THEN [st EXCEPT !.raised = TRUE, !.out = @ \o r.out]
        ELSE [all_references |-> DictPut(st.all_references, ref_name[1], r.obj[1]),
              references     |-> Append(st.references, r.obj[1]),
              out            |-> st.out \o r.out,
              raised         |-> FALSE]

(* One turn of the loop of __read_project_info, lines 173-176.  st is the *)
(* state of the loop: the shared table, the list built so far, the output *)
(* and whether an exception is on its way to the except clause.           *)
ResolveOne(st, ref_name, ng_packages, index, response) ==
    IF st.raised THEN st
    ELSE IF ref_name # None /\ DictHas(st.all_references, ref_name[1])
    THEN [st EXCEPT !.references = Append(@, DictGet(st.all_references, ref_name[1]))]
    ELSE
    LET r == Reference(index, ref_name, ng_packages, response)
    IN  IF r.obj = None
        THEN [st EXCEPT !.raised = TRUE, !.out = @ \o r.out]
        ELSE [all_references |-> DictPut(st.all_references, ref_name[1], r.obj[1]),
              references     |-> Append(st.references, r.obj[1]),
              out            |-> st.out \o r.out,
              raised         |-> FALSE]

RECURSIVE ResolveFrom(_, _, _, _, _, _)
ResolveFrom(st, references_names, i, ng_packages, index, responses) ==
    IF i > Len(references_names) THEN st
    ELSE ResolveFrom(ResolveOne(st, references_names[i], ng_packages, index, responses[i]),
                     references_names, i + 1, ng_packages, index, responses)

(* KeptReferences with the exception caught inside the loop: the list *)
(* built before the failure is kept                                   *)
KeptReferencesPartial(st) == st.references

(* The references a project keeps: the except clause of line 177 *)
KeptReferences(st) == IF st.raised THEN <<>> ELSE st.references

(* __read_project_nuget_packages of a manifest that parses *)
read_project_nuget_packages(manifest) ==
    IF manifest.exists THEN Some(manifest.packages) ELSE None

(* The version of lines 165-168 *)
ReadVersion(f) == IF f.tfv = <<>> THEN None ELSE f.tfv[1]

(* Whether __read_project_info raises on this file: ElementTree.parse of *)
(* the manifest (line 186) or of the project file (line 162).            *)
ReadRaises(f) == (f.manifest.exists /\ ~f.manifest.wellformed) \/ ~f.wellformed

(* __read_project_info of a file it does not raise on *)
read_project_info(table, folder, file, f, index, responses) ==
    LET ng_packages == read_project_nuget_packages(f.manifest)
        version     == ReadVersion(f)
        st          == ResolveFrom([all_references |-> table, references |-> <<>>,
                                    out |-> <<>>, raised |-> FALSE],
                                   f.includes, 1, ng_packages, index, responses)
        file_relative == SubSeq(file, Len(folder) + 1, Len(file))
    IN  [all_references |-> st.all_references,
         out  |-> st.out,
         info |-> ProjectInfo(file_relative, version, KeptReferences(st), ng_packages)]

RECURSIVE MarkReferences(_, _, _, _, _)
MarkReferences(u, references, j, project_id, nr_projects) ==
    IF j > Len(references) THEN u
    ELSE
    LET reference == references[j]
        u1 == IF DictHas(u, reference) THEN u
              ELSE DictPut(u, reference, [k \in 1..nr_projects |-> FALSE])
        u2 == DictPut(u1, reference, [DictGet(u1, reference) EXCEPT ![project_id] = TRUE])
    IN  MarkReferences(u2, references, j + 1, project_id, nr_projects)

RECURSIVE MatrixFrom(_, _, _)
MatrixFrom(u, infos, project_id) ==
    IF project_id > Len(infos) THEN u
    ELSE MatrixFrom(MarkReferences(u, infos[project_id].References, 1, project_id, Len(infos)),
                    infos, project_id + 1)

(* ReferencesMatrix.__init__ *)
ReferencesMatrix(infos) == MatrixFrom(<<>>, infos, 1)

(* get_framework_table with a row only for the projects that have *)
(* references                                                     *)
FrameworkTableOfReferencing(infos) ==
    LET having == SelectSeq(infos, LAMBDA p : p.References # <<>>)
    IN  [i \in 1..Len(having) |->
            <<having[i].Name,
              IF having[i].TargetFrameworkVersion # None
              THEN having[i].TargetFrameworkVersion[1] ELSE <<>> >>]

(* HtmlFormatter.get_framework_table: the rows under the header *)
get_framework_table(infos) ==
    [i \in 1..Len(infos) |->
        <<infos[i].Name,
          IF infos[i].TargetFrameworkVersion # None
          THEN infos[i].TargetFrameworkVersion[1] ELSE <<>> >>]

RECURSIVE InsertByName(_, _)
InsertByName(sorted, x) ==
    IF sorted = <<>> THEN <<x>>
    ELSE IF StrLess(x.Name, Head(sorted).Name) THEN <<x>> \o sorted
    ELSE <<Head(sorted)>> \o InsertByName(Tail(sorted), x)

(* sorted(references, key=lambda ref: ref.Name): a stable sort *)
RECURSIVE SortedByName(_)
SortedByName(references) ==
    IF references = <<>> THEN <<>>
    ELSE InsertByName(SortedByName(SubSeq(references, 1, Len(references) - 1)),
                      references[Len(references)])

(* HtmlFormatter.get_references_table: the rows under the header *)
get_references_table(infos, u) ==
    LET references == SortedByName([i \in 1..Len(u) |-> u[i][1]])
    IN  [i \in 1..Len(references) |->
            [Reference      |-> references[i].Name,
             Version        |-> references[i].Version,
             IsNuGetPackage |-> IF references[i].IsNuGetPackage THEN "Y" ELSE "N",
             LatestVersion  |-> IF references[i].LatestVersion # None
                                THEN references[i].LatestVersion[1] ELSE <<>>,
             marks          |-> [p \in 1..Len(infos) |->
                                    IF DictGet(u, references[i])[p] THEN "*" ELSE ""]]]

(* HtmlFormatter.get_output *)
get_output(infos, u) ==
    [framework_table  |-> get_framework_table(infos),
     references_table |-> get_references_table(infos, u)]

--------------------------------------------------------------------------
(* The run *)

Init ==
    /\ \E n \in 0..MaxProjects : files \in [1..n -> ProjectFiles]
    /\ api_index \in ApiIndexes
    /\ pc = "reading"
    /\ all_references = <<>>
    /\ projects_info = <<>>
    /\ stdout = <<>>
    /\ uses = <<>>
    /\ report = None
    /\ opened = FALSE

(* The file the comprehension of line 142 is at *)
Current == Len(projects_info) + 1

(* __read_project_info of the next file, returning its ProjectInfo *)
ReadProjectInfo ==
    /\ pc = "reading"
    /\ Current <= Len(files)
    /\ ~ReadRaises(files[Current])
    /\ \E responses \in [1..Len(files[Current].includes) -> Responses] :
          LET got == read_project_info(all_references, Folder, PathOf(Current),
                                       files[Current], api_index, responses)
          IN  /\ all_references' = got.all_references
              /\ stdout' = stdout \o got.out
              /\ projects_info' = Append(projects_info, got.info)
    /\ UNCHANGED <<files, api_index, pc, uses, report, opened>>

(* __read_project_info of the next file, raising: the exception leaves *)
(* ProjectsAnalyzer.__init__ and ends the process                      *)
ReadProjectInfoRaises ==
    /\ pc = "reading"
    /\ Current <= Len(files)
    /\ ReadRaises(files[Current])
    /\ pc' = "aborted"
    /\ UNCHANGED <<files, api_index, all_references, projects_info, stdout, uses, report, opened>>

(* The end of ProjectsAnalyzer.__init__, line 143 *)
BuildMatrix ==
    /\ pc = "reading"
    /\ Current > Len(files)
    /\ uses' = ReferencesMatrix(projects_info)
    /\ pc' = "report"
    /\ UNCHANGED <<files, api_index, all_references, projects_info, stdout, report, opened>>

(* generate_and_show_report *)
GenerateAndShowReport ==
    /\ pc = "report"
    /\ report' = Some(get_output(projects_info, uses))
    /\ opened' = TRUE
    /\ pc' = "done"
    /\ UNCHANGED <<files, api_index, all_references, projects_info, stdout, uses>>

Next ==
    \/ ReadProjectInfo
    \/ ReadProjectInfoRaises
    \/ BuildMatrix
    \/ GenerateAndShowReport

Spec == Init /\ [][Next]_vars

--------------------------------------------------------------------------
(* What the properties below speak of *)

Processed == 1..Len(projects_info)

Finished == pc \in {"report", "done"}

(* The Reference objects of the shared table *)
Records == {all_references[i][2] : i \in 1..Len(all_references)}

(* The token before the first comma *)
BareName(full) == Split(full, ",")[1]

(* Project i's file has a Reference element with this Include value *)
Declares(i, full) == \E j \in 1..Len(files[i].includes) : files[i].includes[j] = Some(full)

(* Project i made the record of full: no earlier project declares it, and *)
(* i's own list holds it                                                  *)
CreatedBy(full, i) ==
    /\ i \in Processed
    /\ Declares(i, full)
    /\ \A j \in 1..(i - 1) : ~Declares(j, full)
    /\ \E j \in 1..Len(projects_info[i].References) :
           projects_info[i].References[j].FullName = full

Lists(manifest, name) ==
    manifest.exists /\ \E p \in 1..Len(manifest.packages) : manifest.packages[p].Id = name

(* A qualifier that is not Key=Value *)
BadQualifier(full) ==
    LET tokens == Split(full, ",")
    IN  Len(tokens) > 1 /\ Len(Split(tokens[2], "=")) < 2

(* Every qualifier is Key=Value *)
WellQualified(full) ==
    LET tokens == Split(full, ",")
    IN  \A i \in 2..Len(tokens) : Len(Split(tokens[i], "=")) = 2

(* Resolving this Include value raises whatever the table and the registry *)
MustRaise(include) == include = None \/ BadQualifier(include[1])

(* Resolving this Include value beside this manifest can raise *)
MayRaise(include, manifest) ==
    MustRaise(include) \/ Lists(manifest, BareName(include[1]))

(* Lookups made so far that did not give a Reference: each lookup prints  *)
(* one line, each Reference with IsNuGetPackage set came out of one       *)
RegistryFailed ==
    Len(stdout) > Cardinality({i \in 1..Len(all_references) : all_references[i][2].IsNuGetPackage})

--------------------------------------------------------------------------
(* C1: after all projects are processed there is one Reference, and one   *)
(* row of the reference table, per bare name: no two records of the table *)
(* and no two rows share a bare name, whatever the qualifiers declared.   *)
C1_OneRecordPerBareName ==
    /\ Finished => \A r1, r2 \in Records : r1.Name = r2.Name => r1 = r2
    /\ pc = "done" =>
           \A i, j \in 1..Len(report[1].references_table) :
               report[1].references_table[i].Reference = report[1].references_table[j].Reference
                   => i = j

(* C2: the registry lookup is made at most once per bare name over the *)
(* whole run.                                                          *)
C2_AtMostOneLookupPerName ==
    \A i, j \in 1..Len(stdout) : stdout[i] = stdout[j] => i = j

(* Every Reference element of every file has an Include attribute whose *)
(* qualifiers are Key=Value                                             *)
WellFormedIncludes ==
    \A i \in 1..Len(files) : \A j \in 1..Len(files[i].includes) :
        files[i].includes[j] # None /\ WellQualified(files[i].includes[j][1])

(* C3: after all projects are processed the usage matrix has, for every  *)
(* Reference of the table, a vector with one entry per discovered        *)
(* project, true exactly where the project's file declares the reference *)
(* (stated for project files whose references are all well formed).      *)
C3_UsageMatrix ==
    (Finished /\ WellFormedIncludes) =>
        \A r \in Records :
            /\ DictHas(uses, r)
            /\ Len(DictGet(uses, r)) = Len(files)
            /\ \A i \in 1..Len(files) : DictGet(uses, r)[i] <=> Declares(i, r.FullName)

(* C4: a registry failure while resolving a reference aborts the run: the *)
(* run does not go on to its end, no report is written or opened.         *)
C4_RegistryFailureAborts ==
    RegistryFailed => pc # "done" /\ report = None /\ ~opened

(* C5: reading a project file never raises, whatever the file holds: the *)
(* run is aborted by a manifest only; a file without a framework version *)
(* gets an absent version, one without references an empty list.         *)
C5_ParserNeverRaises ==
    /\ pc = "aborted" =>
           files[Current].manifest.exists /\ ~files[Current].manifest.wellformed
    /\ \A i \in Processed :
           /\ files[i].tfv = <<>> => projects_info[i].TargetFrameworkVersion = None
           /\ files[i].includes = <<>> => projects_info[i].References = <<>>

(* The registry state a Reference carries, and the one the report shows *)
RegistryState(r) == <<r.IsNuGetPackage, r.LatestVersion>>

KnownPackageCell(r) == IF r.IsNuGetPackage THEN "Y" ELSE "N"

(* How the record of full came to be, when project i made it *)
Category(full, i) ==
    IF ~files[i].manifest.exists THEN "not evaluated against registry"
    ELSE IF Lists(files[i].manifest, BareName(full)) THEN "known registry package"
    ELSE "not a registry package"

(* C6: records of different registry categories (not evaluated, not a  *)
(* package, known package) differ in their registry state and in the   *)
(* known-package column of the report.                                 *)
C6_ThreeStates ==
    \A k1, k2 \in DictKeys(all_references) :
        \A i1, i2 \in Processed :
            (CreatedBy(k1, i1) /\ CreatedBy(k2, i2) /\ Category(k1, i1) # Category(k2, i2))
            => /\ RegistryState(DictGet(all_references, k1))
                    # RegistryState(DictGet(all_references, k2))
               /\ KnownPackageCell(DictGet(all_references, k1))
                    # KnownPackageCell(DictGet(all_references, k2))

(* The value of the Version qualifier of a declared name, "" without one *)
RECURSIVE VersionFrom(_, _)
VersionFrom(tokens, i) ==
    IF i > Len(tokens) THEN <<>>
    ELSE IF Split(tokens[i], "=")[1] = <<" Version">> THEN Split(tokens[i], "=")[2]
    ELSE VersionFrom(tokens, i + 1)

VersionQualifier(full) == VersionFrom(Split(full, ","), 2)

(* C7: a record's bare name is the token before the first comma and its *)
(* version is the value of the Version qualifier, "" when there is none *)
C7_VersionQualifier ==
    \A r \in Records :
        WellQualified(r.FullName) =>
            /\ r.Name = BareName(r.FullName)
            /\ r.Version = VersionQualifier(r.FullName)

(* C8: the projects list, and the framework table, hold one entry per    *)
(* discovered file, in discovery order, with the file's framework        *)
(* version or blank, also for a project without references or whose      *)
(* references failed to resolve.                                         *)
C8_OneEntryPerFile ==
    /\ Len(projects_info) <= Len(files)
    /\ \A i \in Processed :
           /\ projects_info[i].File = <<"\\", Stems[i], "\\", Stems[i], ".csproj">>
           /\ projects_info[i].TargetFrameworkVersion =
                  (IF files[i].tfv = <<>> THEN None ELSE files[i].tfv[1])
    /\ Finished => Len(projects_info) = Len(files)
    /\ pc = "done" =>
           /\ Len(report[1].framework_table) = Len(files)
           /\ \A i \in 1..Len(files) :
                  report[1].framework_table[i] =
                      << <<Stems[i]>>,
                         IF files[i].tfv = <<>> \/ files[i].tfv[1] = None
                         THEN <<>> ELSE files[i].tfv[1][1] >>

C8_Witness ==
    /\ pc = "done"
    /\ Len(files) = 2
    /\ files[1].includes = <<>> /\ files[1].tfv = <<>>
    /\ files[2].includes # <<>> /\ projects_info[2].References = <<>>
    /\ files[2].tfv # <<>>

(* C9: a Reference of the shared table never changes: a step leaves every *)
(* item of the table as it is, and the flag and latest version of a       *)
(* record are those its first project's manifest gave it, also when a     *)
(* later project that declares it has a manifest listing it.              *)
C9_FirstSeenWins ==
    \A k \in DictKeys(all_references) :
        \A i \in Processed :
            CreatedBy(k, i) =>
                /\ DictGet(all_references, k).IsNuGetPackage
                       = Lists(files[i].manifest, BareName(k))
                /\ (DictGet(all_references, k).LatestVersion # None)
                       = Lists(files[i].manifest, BareName(k))

C9_TableKept ==
    \A i \in 1..Len(all_references) :
        Len(all_references') >= i /\ all_references'[i] = all_references[i]

C10_AllOrNothing ==
    \A i \in Processed :
        LET refs == projects_info[i].References
            inc  == files[i].includes
        IN  /\ \/ refs = <<>>
               \/ /\ Len(refs) = Len(inc)
                  /\ \A j \in 1..Len(inc) :
                         /\ inc[j] # None
                         /\ DictHas(all_references, inc[j][1])
                         /\ refs[j] = DictGet(all_references, inc[j][1])
            /\ (\E j \in 1..Len(inc) : MustRaise(inc[j])) => refs = <<>>
            /\ (\A j \in 1..Len(inc) : ~MayRaise(inc[j], files[i].manifest))
                   => Len(refs) = Len(inc)
            /\ \A j \in 1..Len(inc) :
                   (\A m \in 1..j : ~MayRaise(inc[m], files[i].manifest))
                       => DictHas(all_references, inc[j][1])
            /\ (Finished /\ refs = <<>>) => \A u \in 1..Len(uses) : ~uses[u][2][i]

C10_Witness ==
    /\ Finished
    /\ Len(files) = 2
    /\ files[1].includes = <<Some(FooV1), Some(BazBad)>>
    /\ projects_info[1].References = <<>>
    /\ projects_info[2].References = <<DictGet(all_references, FooV1)>>
    /\ DictGet(uses, DictGet(all_references, FooV1)) = <<FALSE, TRUE>>

====
